---- MODULE Spec2Model ----
(***************************************************************************)
(* Verification model of the spectral engine in src/custom_dsp.py:         *)
(* CustomFFT (fft, rfft, ifft, rfftfreq, _bit_reverse_copy), CustomSTFT    *)
(* (stft, istft) and CustomSpectrogram (compute_spectrogram,               *)
(* mel_filterbank).                                                        *)
(*                                                                         *)
(* Arithmetic is exact.  A complex number is an element of the cyclotomic  *)
(* field Q(zeta), zeta = exp(2*pi*i/(2*H)), written [c |-> <<c0..c(H-1)>>, *)
(* d |-> den] for (c0 + c1*zeta + ... + c(H-1)*zeta^(H-1)) / den in lowest *)
(* terms; the powers 1, zeta, .., zeta^(H-1) are a basis, so two numbers   *)
(* are equal exactly when their records are.  Every twiddle factor         *)
(* exp(-2*pi*i/m) with m dividing 2*H is a power of zeta.  IEEE rounding   *)
(* is not modelled.                                                        *)
(***************************************************************************)
EXTENDS Integers, Sequences, FiniteSets, TLC

VARIABLES
    pc,           \* the call in progress and its position
    x,            \* the input signal of the call
    n_fft,        \* rfft's n / stft's n_fft / mel_filterbank's n_fft
    d,            \* rfftfreq's sample spacing
    buf,          \* fft's working array (the local x of fft)
    s,            \* fft's butterfly stage counter
    out,          \* the array the fft-family call returned
    freqs,        \* what rfftfreq returned
    hop_length,   \* stft/istft argument
    window,       \* stft/istft argument
    stft_matrix,  \* what stft returned: a sequence of columns (frames)
    err,          \* the exception the call raised, "none" when it returned
    y,            \* istft's output buffer
    window_sum,   \* istft's window-energy buffer
    frame_idx,    \* istft's loop counter
    n_mels,       \* mel_filterbank arguments
    sample_rate,
    fmin,
    fmax,
    bin_points,   \* mel_filterbank's bin_points array
    filterbank,   \* what mel_filterbank returned
    scale,        \* compute_spectrogram argument
    spectrogram,  \* what compute_spectrogram returned
    dtype,        \* the dtype of the ndarray x
    buf_mem,      \* the buffer fft's working array lives in
    out_mem,      \* the buffer the returned array lives in
    atomic,       \* frames run in parallel: is one accumulation one step
    tasks,        \* frames run in parallel: the position of each frame's work
    processing_status,  \* the server's dict: session id -> status entry
    requests,     \* the requests to the two separation endpoints
    polled        \* what the last GET /status/<session_id> returned

vars == <<pc, x, n_fft, d, buf, s, out, freqs, hop_length, window, stft_matrix,
          err, y, window_sum, frame_idx, n_mels, sample_rate, fmin, fmax,
          bin_points, filterbank, scale, spectrogram, dtype, buf_mem, out_mem,
          atomic, tasks, processing_status, requests, polled>>

memVars == <<dtype, buf_mem, out_mem>>
fftVars == <<buf, s, out, freqs, memVars>>
parVars == <<atomic, tasks>>
stftVars == <<hop_length, window, stft_matrix, y, window_sum, frame_idx, parVars>>
melVars == <<n_mels, sample_rate, fmin, fmax, bin_points, filterbank, scale,
             spectrogram>>
srvVars == <<processing_status, requests, polled>>

\* the server has no session and no request
ServerIdle == processing_status = <<>> /\ requests = <<>> /\ polled = <<>>

(***************************************************************************)
(* Bounds of the model.                                                    *)
(***************************************************************************)
\* longest sequence handed to fft / rfft / ifft directly
MaxLen == 5
\* longest signal handed to stft
MaxSig == 6

\* Python's None for an omitted size argument (no size drawn here is negative)
None == -1

(***************************************************************************)
(* Integer helpers.                                                        *)
(***************************************************************************)
Max(a, b) == IF a >= b THEN a ELSE b
Min(a, b) == IF a <= b THEN a ELSE b
Abs(a) == IF a < 0 THEN -a ELSE a

RECURSIVE GCD(_, _)
GCD(a, b) == IF b = 0 THEN a ELSE GCD(b, a % b)

LCM(a, b) == (a \div GCD(a, b)) * b

RECURSIVE Pow2(_)
Pow2(p) == IF p <= 0 THEN 1 ELSE 2 * Pow2(p - 1)

\* Python's n & m on a non-negative n (m may be -1 only when n = 0)
RECURSIVE BitAnd(_, _)
BitAnd(a, b) ==
    IF a = 0 \/ b = 0 THEN 0
    ELSE (a % 2) * (b % 2) + 2 * BitAnd(a \div 2, b \div 2)

\* int(np.ceil(np.log2(n))) for n >= 1: the least p with 2^p >= n
RECURSIVE CeilLog2From(_, _)
CeilLog2From(n, p) == IF Pow2(p) >= n THEN p ELSE CeilLog2From(n, p + 1)
CeilLog2(n) == CeilLog2From(n, 0)

\* int(np.log2(n)) for n >= 1: the greatest p with 2^p <= n
RECURSIVE FloorLog2(_)
FloorLog2(n) == IF n <= 1 THEN 0 ELSE 1 + FloorLog2(n \div 2)

\* sum of f[k] for k in lo..hi
RECURSIVE SumFn(_, _, _)
SumFn(f, lo, hi) == IF lo > hi THEN 0 ELSE f[lo] + SumFn(f, lo + 1, hi)

\* the array with the elements of f, each computed once (a function
\* expression is otherwise recomputed at every use of an element)
Arr(f) == f \o <<>>

(***************************************************************************)
(* Exact complex numbers.                                                  *)
(***************************************************************************)
\* half the order of zeta: the longest transform has 2*H points
H == Pow2(CeilLog2(Max(MaxLen, 4))) \div 2

RECURSIVE GCDSeq(_, _, _)
GCDSeq(c, k, g) == IF k > Len(c) THEN g ELSE GCDSeq(c, k + 1, GCD(g, Abs(c[k])))

\* a float divided by zero is inf or nan, never an exception; whatever is
\* computed from it is not finite either
NotFinite == [c |-> Arr([k \in 1..H |-> 0]), d |-> 0]

\* c / den in lowest terms with a positive denominator
Norm(c, den) ==
    LET sg == IF den < 0 THEN -1 ELSE 1
        g == GCDSeq(c, 1, Abs(den))
    IN IF den = 0 THEN NotFinite
       ELSE [c |-> Arr([k \in 1..H |-> (sg * c[k]) \div g]), d |-> Abs(den) \div g]

CInt(n) == [c |-> Arr([k \in 1..H |-> IF k = 1 THEN n ELSE 0]), d |-> 1]
CRat(n, den) == Norm(Arr([k \in 1..H |-> IF k = 1 THEN n ELSE 0]), den)
CZero == CInt(0)
COne == CInt(1)

\* coefficient k (0-based) of zeta^j * (the number with coefficients c)
ShiftCoef(c, j, k) ==
    LET t == (k - j) % (2 * H)
    IN IF t < H THEN c[t + 1] ELSE -c[t - H + 1]

\* zeta^j for any integer j
ZetaPow(j) == [c |-> Arr([k \in 1..H |-> ShiftCoef(COne.c, j, k - 1)]), d |-> 1]

\* the imaginary unit 1j
CI == ZetaPow(H \div 2)

CAdd(a, b) ==
    LET l == LCM(a.d, b.d)
    IN IF a.d = 0 \/ b.d = 0 THEN NotFinite
       ELSE Norm(Arr([k \in 1..H |-> a.c[k] * (l \div a.d) + b.c[k] * (l \div b.d)]), l)

CNeg(a) == [c |-> Arr([k \in 1..H |-> -a.c[k]]), d |-> a.d]

CSub(a, b) == CAdd(a, CNeg(b))

CMul(a, b) ==
    Norm(Arr([k \in 1..H |->
            SumFn([j \in 0..(H - 1) |-> a.c[j + 1] * ShiftCoef(b.c, j, k - 1)],
                  0, H - 1)]),
         a.d * b.d)

\* np.conj: conj(zeta^k) = zeta^(-k) = -zeta^(H-k) for 0 < k < H
CConj(a) ==
    [c |-> Arr([k \in 1..H |-> IF k = 1 THEN a.c[1] ELSE -a.c[H - k + 2]]), d |-> a.d]

\* np.real: (a + conj(a)) / 2
CReal(a) == LET t == CAdd(a, CConj(a)) IN Norm(t.c, 2 * t.d)

\* a / n for an integer n # 0
CDivInt(a, n) == Norm(a.c, a.d * n)

IsRational(a) == \A k \in 2..H : a.c[k] = 0

\* a / r for a rational r # 0
CDivRat(a, r) == Norm(Arr([k \in 1..H |-> a.c[k] * r.d]), a.d * r.c[1])

(***************************************************************************)
(* Array helpers (0-based Python indices become 1-based here).             *)
(***************************************************************************)
Zeros(n) == Arr([k \in 1..n |-> CZero])

\* a[:n] for n >= 0
Take(a, n) == SubSeq(a, 1, Min(Len(a), n))

\* a[lo:hi] for 0 <= lo, 0 <= hi
Slice(a, lo, hi) == SubSeq(a, Min(lo, Len(a)) + 1, Min(hi, Len(a)))

\* np.pad(a, (0, k), mode='constant')
PadRight(a, k) == a \o Zeros(k)

SeqsUpTo(S, n) == UNION {[1..k -> S] : k \in 0..n}

(***************************************************************************)
(* CustomFFT                                                               *)
(***************************************************************************)
\* mutant of ReverseBits: the index is kept
ReverseBitsKept(i, bits) == i

\* reversed_idx = int('{:0{width}b}'.format(i, width=bits)[::-1], 2)
RECURSIVE ReverseBits(_, _)
ReverseBits(i, bits) ==
    IF bits = 0 THEN 0
    ELSE (i % 2) * Pow2(bits - 1) + ReverseBits(i \div 2, bits - 1)

\* the loop of _bit_reverse_copy from index i on, into reversed_a
RECURSIVE BitReverseLoop(_, _, _, _)
BitReverseLoop(a, reversed_a, i, bits) ==
    IF i >= Len(a) THEN reversed_a
    ELSE BitReverseLoop(a,
                        [reversed_a EXCEPT ![ReverseBits(i, bits) + 1] = a[i + 1]],
                        i + 1, bits)

bit_reverse_copy(a) ==
    IF Len(a) <= 1 THEN a
    ELSE BitReverseLoop(a, Zeros(Len(a)), 0, FloorLog2(Len(a)))

\* mutant of PadPow2: pads to twice the length instead of the next power of two
PadPow2Doubled(a) ==
    LET n == Len(a)
    IN IF BitAnd(n, n - 1) # 0 THEN PadRight(a, n) ELSE a

\* lines 50-54 of fft: pad to the next power of two
PadPow2(a) ==
    LET n == Len(a)
    IN IF BitAnd(n, n - 1) # 0
       THEN PadRight(a, Pow2(CeilLog2(n)) - n)
       ELSE a

\* mutant of Twiddle: the conjugate root exp(+2j * pi / m)
TwiddlePositive(m) == ZetaPow((2 * H) \div m)

\* wm = np.exp(-2j * np.pi / m), m a power of two dividing 2*H
Twiddle(m) == ZetaPow(-((2 * H) \div m))

\* the innermost loop of fft from j on, for the block starting at k
RECURSIVE ButterflyJ(_, _, _, _, _, _)
ButterflyJ(a, k, m, j, w, wm) ==
    IF j >= m \div 2 THEN a
    ELSE LET t == CMul(w, a[k + j + (m \div 2) + 1])
             u == a[k + j + 1]
         IN ButterflyJ([a EXCEPT ![k + j + 1] = CAdd(u, t),
                                 ![k + j + (m \div 2) + 1] = CSub(u, t)],
                       k, m, j + 1, CMul(w, wm), wm)

\* mutant of StagePairs: the partner is taken a whole block further on
StagePairsWholeBlock(n, m) ==
    {<<k + j, k + j + m>> :
        k \in {b \in 0..(n - 1) : b % m = 0}, j \in 0..(m \div 2 - 1)}

\* lines 70-76: the index pairs (k + j, k + j + m // 2) one stage reads and
\* writes, k in range(0, n, m), j in range(m // 2)
StagePairs(n, m) ==
    {<<k + j, k + j + m \div 2>> :
        k \in {b \in 0..(n - 1) : b % m = 0}, j \in 0..(m \div 2 - 1)}

\* the loop over block starts k, k + m, .. of one stage
RECURSIVE ButterflyK(_, _, _)
ButterflyK(a, k, m) ==
    IF k >= Len(a) THEN a
    ELSE ButterflyK(ButterflyJ(a, k, m, 0, COne, Twiddle(m)), k + m, m)

\* one pass of the loop over s
ButterflyStage(a, st) == ButterflyK(a, 0, Pow2(st))

RECURSIVE ButterflyStages(_, _, _)
ButterflyStages(a, st, stages) ==
    IF st > stages THEN a
    ELSE ButterflyStages(ButterflyStage(a, st), st + 1, stages)

Fft(a) ==
    LET p == PadPow2(a)
    IN IF Len(p) <= 1 THEN p
       ELSE ButterflyStages(bit_reverse_copy(p), 1, FloorLog2(Len(p)))

\* mutant of Rfft: drops the last (Nyquist) coefficient
RfftWithoutNyquist(a, n0) ==
    LET n == IF n0 = None THEN Len(a) ELSE n0
        a1 == IF Len(a) < n THEN PadRight(a, n - Len(a))
              ELSE IF Len(a) > n THEN Take(a, n)
              ELSE a
    IN Take(Fft(a1), n \div 2)

Rfft(a, n0) ==
    LET n == IF n0 = None THEN Len(a) ELSE n0
        a1 == IF Len(a) < n THEN PadRight(a, n - Len(a))
              ELSE IF Len(a) > n THEN Take(a, n)
              ELSE a
    IN Take(Fft(a1), n \div 2 + 1)

\* mutant of Ifft: the division by n is left out
IfftUnscaled(X) ==
    LET n == Len(X)
        x_conj == Fft(Arr([k \in 1..n |-> CConj(X[k])]))
    IN Arr([k \in 1..Len(x_conj) |-> CConj(x_conj[k])])

Ifft(X) ==
    LET n == Len(X)
        x_conj == Fft(Arr([k \in 1..n |-> CConj(X[k])]))
    IN Arr([k \in 1..Len(x_conj) |-> CDivInt(CConj(x_conj[k]), n)])

\* rfftfreq(n, dd): 1.0 / (n * dd) raises ZeroDivisionError when n * dd = 0
Rfftfreq(n, dd) ==
    IF n * dd = 0 THEN [err |-> "ZeroDivisionError", val |-> <<>>]
    ELSE [err |-> "none",
          val |-> Arr([k \in 1..(n \div 2 + 1) |-> CRat(k - 1, n * dd)])]

(***************************************************************************)
(* The calls of CustomFFT as steps.                                        *)
(***************************************************************************)
\* sample values of the transform inputs: 1, 1j, 2-1j
FftVals == {CInt(1), CI, CSub(CInt(2), CI)}
\* real sample values
RealVals == {CInt(1), CInt(-2)}

Idle == /\ hop_length = None /\ window = "none"
        /\ stft_matrix = [rows |-> 0, cols |-> <<>>]
        /\ y = <<>> /\ window_sum = <<>> /\ frame_idx = 0
        /\ atomic = TRUE /\ tasks = <<>>
        /\ ServerIdle
        /\ n_mels = 0 /\ sample_rate = 0 /\ fmin = 0 /\ fmax = 0
        /\ bin_points = <<>> /\ filterbank = <<>>
        /\ scale = "magnitude" /\ spectrogram = <<>>

\* Storage.  Every array lives in a buffer; buffers are numbered as they
\* are allocated, the argument x lives in buffer XMem, and a view (a slice)
\* lives in the buffer of the array it is taken of.
NoMem == 0
XMem == 1

\* the buffer of a newly allocated array, given the buffer last allocated
NewMem(mem) == Max(mem, XMem) + 1

\* line 47: np.asarray(x, dtype=complex) returns x itself when x is already
\* a complex ndarray and a converted copy otherwise
PromotedMem(mem, dt) == IF dt = "complex128" THEN mem ELSE NewMem(mem)

\* lines 51-54: np.pad allocates; it is called only when n is no power of two
PaddedMem(mem, n) == IF BitAnd(n, n - 1) # 0 THEN NewMem(mem) ELSE mem

\* lines 57-61 and 21-34: return x when n <= 1, else work on the array
\* _bit_reverse_copy allocated
ReversedMem(mem, n) == IF n <= 1 THEN mem ELSE NewMem(mem)

\* the buffer of what fft returns for an argument of length n in buffer mem
FftMem(mem, n, dt) ==
    ReversedMem(PaddedMem(PromotedMem(mem, dt), n),
                IF BitAnd(n, n - 1) # 0 THEN Pow2(CeilLog2(n)) ELSE n)

\* rfft lines 99-102: np.pad allocates, x[:n] is a view
RfftArgMem(mem, len, n) == IF len < n THEN NewMem(mem) ELSE mem

Dtypes == {"float64", "complex128"}

InitFFT ==
    /\ pc \in {"fft", "rfft"}
    /\ IF pc = "fft"
       THEN /\ dtype \in Dtypes
            /\ x \in SeqsUpTo(IF dtype = "float64" THEN RealVals ELSE FftVals, MaxLen)
            /\ n_fft = None
            /\ d = 1
       ELSE /\ dtype = "float64"
            /\ x \in SeqsUpTo(RealVals, MaxLen)
            /\ n_fft \in {None} \cup 1..MaxLen
            /\ d \in {1, 2}
    /\ buf = <<>> /\ s = 0 /\ out = <<>> /\ freqs = <<>>
    /\ buf_mem = NoMem /\ out_mem = NoMem
    /\ err = "none"
    /\ Idle

\* fft lines 47-58: promote, pad, return at once when n <= 1
FftPad ==
    /\ pc = "fft"
    /\ buf' = PadPow2(x)
    /\ buf_mem' = PaddedMem(PromotedMem(XMem, dtype), Len(x))
    /\ IF Len(buf') <= 1
       THEN pc' = "fft_done" /\ out' = buf' /\ out_mem' = buf_mem'
       ELSE pc' = "fft_padded" /\ out' = out /\ out_mem' = out_mem
    /\ UNCHANGED <<srvVars, x, n_fft, d, s, freqs, err, dtype, stftVars, melVars>>

\* fft lines 60-65
FftBitReverse ==
    /\ pc = "fft_padded"
    /\ buf' = bit_reverse_copy(buf)
    /\ buf_mem' = ReversedMem(buf_mem, Len(buf))
    /\ s' = 1
    /\ pc' = "fft_stage"
    /\ UNCHANGED <<srvVars, x, n_fft, d, out, freqs, err, dtype, out_mem, stftVars, melVars>>

\* fft lines 67-80: one stage of the butterfly loop, written in place into
\* the working array (and so into x, were they one buffer); return after
\* the last
FftStage ==
    /\ pc = "fft_stage"
    /\ buf' = ButterflyStage(buf, s)
    /\ x' = IF buf_mem = XMem THEN buf' ELSE x
    /\ s' = s + 1
    /\ IF s = FloorLog2(Len(buf))
       THEN pc' = "fft_done" /\ out' = buf' /\ out_mem' = buf_mem
       ELSE pc' = pc /\ out' = out /\ out_mem' = out_mem
    /\ UNCHANGED <<srvVars, n_fft, d, freqs, err, dtype, buf_mem, stftVars, melVars>>

\* ifft applied to what fft returned; lines 131-133: np.conj and the
\* division allocate their results
IfftCall ==
    /\ pc = "fft_done"
    /\ out' = Ifft(out)
    /\ out_mem' = NewMem(NewMem(FftMem(NewMem(out_mem), Len(out), "complex128")))
    /\ pc' = "ifft_done"
    /\ UNCHANGED <<srvVars, x, n_fft, d, buf, s, freqs, err, dtype, buf_mem, stftVars, melVars>>

RfftCall ==
    /\ pc = "rfft"
    /\ out' = Rfft(x, n_fft)
    /\ LET n == IF n_fft = None THEN Len(x) ELSE n_fft
       IN out_mem' = FftMem(RfftArgMem(XMem, Len(x), n), n, dtype)
    /\ pc' = "rfft_done"
    /\ UNCHANGED <<srvVars, x, n_fft, d, buf, s, freqs, err, dtype, buf_mem, stftVars, melVars>>

\* rfftfreq for the same n
RfftfreqCall ==
    /\ pc = "rfft_done"
    /\ LET r == Rfftfreq(IF n_fft = None THEN Len(x) ELSE n_fft, d)
       IN freqs' = r.val /\ err' = r.err
    /\ pc' = "rfftfreq_done"
    /\ UNCHANGED <<srvVars, x, n_fft, d, buf, s, out, memVars, stftVars, melVars>>

NextFFT ==
    \/ FftPad
    \/ FftBitReverse
    \/ FftStage
    \/ IfftCall
    \/ RfftCall
    \/ RfftfreqCall

SpecFFT == InitFFT /\ [][NextFFT]_vars

(***************************************************************************)
(* CustomSTFT                                                              *)
(***************************************************************************)
\* 2*cos(2*pi*k/p), an integer exactly for the periods p in {1, 2, 3, 4, 6}
TwoCos(k, p) ==
    LET r == k % p
    IN CASE p = 1 -> 2
         [] p = 2 -> IF r = 0 THEN 2 ELSE -2
         [] p = 3 -> IF r = 0 THEN 2 ELSE -1
         [] p = 4 -> IF r = 0 THEN 2 ELSE IF r = 2 THEN -2 ELSE 0
         [] p = 6 -> IF r = 0 THEN 2
                     ELSE IF r \in {1, 5} THEN 1
                     ELSE IF r \in {2, 4} THEN -1
                     ELSE -2

\* the window of length nf (lines 178-187 and 235-244); np.arange(nf) is
\* empty for nf <= 0, and for nf = 1 the cosine's argument is 0 / 0, nan
Window(nf, wname) ==
    IF nf = 1 /\ wname \in {"hann", "hamming", "blackman"} THEN <<NotFinite>>
    ELSE Arr([k \in 1..nf |->
        CASE wname = "hann" -> CRat(2 - TwoCos(k - 1, nf - 1), 4)
          [] wname = "hamming" -> CRat(54 - 23 * TwoCos(k - 1, nf - 1), 100)
          [] wname = "blackman" ->
                CRat(42 - 25 * TwoCos(k - 1, nf - 1)
                        + 4 * TwoCos(2 * (k - 1), nf - 1), 100)
          [] OTHER -> COne])

\* whether numpy can broadcast two 1-D arrays of these lengths together
Broadcastable(la, lb) == la = lb \/ la = 1 \/ lb = 1

\* a * b for 1-D arrays that can be broadcast together
ArrayMul(a, b) ==
    Arr([k \in 1..(IF Len(a) = 1 THEN Len(b) ELSE Len(a)) |->
        CMul(IF Len(a) = 1 THEN a[1] ELSE a[k],
             IF Len(b) = 1 THEN b[1] ELSE b[k])])

\* hop_length, or its default n_fft // 4
HopOf(hop, nf) == IF hop = None THEN nf \div 4 ELSE hop

\* mutant of Frame: frames laid end to end (start = frame_idx * n_fft)
FrameWithoutOverlap(sig, nf, hop, fi) ==
    LET start == fi * nf
        end == start + nf
    IN IF end > Len(sig)
       THEN PadRight(Slice(sig, start, Len(sig)), end - Len(sig))
       ELSE Slice(sig, start, end)

\* lines 198-205: the samples of frame frame_idx
Frame(sig, nf, hop, fi) ==
    LET start == fi * hop
        end == start + nf
    IN IF end > Len(sig)
       THEN PadRight(Slice(sig, start, Len(sig)), end - Len(sig))
       ELSE Slice(sig, start, end)

\* the frame loop of stft from frame fi on; cols are the columns stored so far
RECURSIVE StftLoop(_, _, _, _, _, _, _)
StftLoop(sig, nf, hop, win, n_frames, fi, cols) ==
    IF fi >= n_frames THEN [err |-> "none", rows |-> nf \div 2 + 1, cols |-> cols]
    ELSE LET frame == Frame(sig, nf, hop, fi)
         IN IF ~Broadcastable(Len(frame), Len(win))
            THEN [err |-> "ValueError", rows |-> 0, cols |-> <<>>]
            ELSE LET fft_frame == Rfft(ArrayMul(frame, win), nf)
                 IN IF ~(Len(fft_frame) = nf \div 2 + 1 \/ Len(fft_frame) = 1)
                    THEN [err |-> "ValueError", rows |-> 0, cols |-> <<>>]
                    ELSE StftLoop(sig, nf, hop, win, n_frames, fi + 1,
                                  Append(cols,
                                         Arr([k \in 1..(nf \div 2 + 1) |->
                                             IF Len(fft_frame) = 1
                                             THEN fft_frame[1]
                                             ELSE fft_frame[k]])))

\* stft(x, n_fft, hop_length, window) for n_fft >= 0: the matrix as its row
\* count and its columns, or the exception raised
Stft(sig, nf, hop0, wname) ==
    LET hop == HopOf(hop0, nf)
    IN IF hop = 0 THEN [err |-> "ZeroDivisionError", rows |-> 0, cols |-> <<>>]
       ELSE LET n_frames == 1 + (Len(sig) - nf) \div hop
            IN IF n_frames < 0
               THEN [err |-> "ValueError", rows |-> 0, cols |-> <<>>]
               ELSE StftLoop(sig, nf, hop, Window(nf, wname), n_frames, 0, <<>>)

\* n_fft as istft recovers it from the matrix (line 230)
IstftNFft(mat) == (mat.rows - 1) * 2

\* mutant of FullSpectrum: the mirrored bins are not conjugated
FullSpectrumNotConjugated(col) ==
    col \o Arr([j \in 1..Max(0, Len(col) - 2) |-> col[Len(col) - j]])

\* lines 256-259: the column followed by the conjugates of column[-2:0:-1]
FullSpectrum(col) ==
    col \o Arr([j \in 1..Max(0, Len(col) - 2) |-> CConj(col[Len(col) - j])])

\* line 262: np.real(CustomFFT.ifft(full_fft))[:n_fft]
IstftFrameSamples(col, nf) ==
    LET t == Ifft(FullSpectrum(col))
    IN Take(Arr([k \in 1..Len(t) |-> CReal(t[k])]), nf)

\* a[start:start + len(v)] += v
AddAt(a, start, v) ==
    Arr([k \in 1..Len(a) |->
        IF start < k /\ k <= start + Len(v) THEN CAdd(a[k], v[k - start]) ELSE a[k]])

\* window_sum > 1e-10 for a rational r = c/d with d > 0:
\* c/d > 10^-10  <=>  c > 0 and floor(d/c) < 10^10
AboveThreshold(r) ==
    /\ r.c[1] > 0
    /\ ((r.d \div r.c[1]) \div 100000) < 100000

Divide(a, r) == IF r.c[1] = 0 THEN NotFinite ELSE CDivRat(a, r)

\* mutant of Normalize: every sample is divided, whatever its energy
NormalizeEverywhere(yy, ws) ==
    Arr([k \in 1..Len(yy) |-> Divide(yy[k], ws[k])])

\* lines 268-270
Normalize(yy, ws) ==
    Arr([k \in 1..Len(yy) |-> IF AboveThreshold(ws[k]) THEN Divide(yy[k], ws[k]) ELSE yy[k]])

(***************************************************************************)
(* The calls of CustomSTFT as steps: stft, then istft on its result with   *)
(* the same hop_length and window.                                         *)
(***************************************************************************)
\* sample values of the signals
SigVals == {CInt(1), CInt(-2)}
\* frame sizes drawn: the Hann, Hamming and Blackman coefficients are
\* rational for n_fft - 1 in {1, 2, 3, 4, 6}, and n_fft = 1 makes them nan
FrameSizes == 0..4
HopLengths == {None} \cup 0..4
Windows == {"hann", "hamming", "blackman", "none"}

InitSTFT ==
    /\ pc = "stft"
    /\ x \in SeqsUpTo(SigVals, MaxSig)
    /\ n_fft \in FrameSizes
    /\ hop_length \in HopLengths
    /\ window \in Windows
    /\ (n_fft = 1 => window = "none")
    /\ d = 1 /\ buf = <<>> /\ s = 0 /\ out = <<>> /\ freqs = <<>>
    /\ dtype = "float64" /\ buf_mem = NoMem /\ out_mem = NoMem
    /\ stft_matrix = [rows |-> 0, cols |-> <<>>]
    /\ err = "none"
    /\ y = <<>> /\ window_sum = <<>> /\ frame_idx = 0
    /\ atomic = TRUE /\ tasks = <<>>
    /\ ServerIdle
    /\ n_mels = 0 /\ sample_rate = 0 /\ fmin = 0 /\ fmax = 0
    /\ bin_points = <<>> /\ filterbank = <<>>
    /\ scale = "magnitude" /\ spectrogram = <<>>

StftCall ==
    /\ pc = "stft"
    /\ LET r == Stft(x, n_fft, hop_length, window)
       IN /\ err' = r.err
          /\ stft_matrix' = [rows |-> r.rows, cols |-> r.cols]
          /\ pc' = IF r.err = "none" THEN "stft_done" ELSE "stft_error"
    /\ UNCHANGED <<srvVars, x, n_fft, d, fftVars, hop_length, window, y, window_sum,
                   frame_idx, parVars, melVars>>

\* istft lines 229-249: recover n_fft, allocate the two buffers
IstftAlloc ==
    /\ pc = "stft_done"
    /\ LET nf == IstftNFft(stft_matrix)
           n_samples == nf + (Len(stft_matrix.cols) - 1) * HopOf(hop_length, nf)
       IN IF n_samples < 0
          THEN /\ err' = "ValueError"
               /\ pc' = "istft_error"
               /\ UNCHANGED <<y, window_sum>>
          ELSE /\ y' = Zeros(n_samples)
               /\ window_sum' = Zeros(n_samples)
               /\ pc' = "istft_loop"
               /\ err' = err
    /\ frame_idx' = 0
    /\ UNCHANGED <<srvVars, x, n_fft, d, fftVars, hop_length, window, stft_matrix, parVars,
                   melVars>>

\* istft lines 252-266: one pass of the overlap-add loop
IstftFrame ==
    /\ pc = "istft_loop"
    /\ frame_idx < Len(stft_matrix.cols)
    /\ LET nf == IstftNFft(stft_matrix)
           start == frame_idx * HopOf(hop_length, nf)
           win == Window(nf, window)
           frame == IstftFrameSamples(stft_matrix.cols[frame_idx + 1], nf)
       IN /\ y' = AddAt(y, start, ArrayMul(frame, win))
          /\ window_sum' = AddAt(window_sum, start, ArrayMul(win, win))
    /\ frame_idx' = frame_idx + 1
    /\ UNCHANGED <<srvVars, pc, x, n_fft, d, fftVars, hop_length, window, stft_matrix,
                   err, parVars, melVars>>

\* istft lines 268-272: normalize by the window overlap and return
IstftNormalize ==
    /\ pc = "istft_loop"
    /\ frame_idx >= Len(stft_matrix.cols)
    /\ y' = Normalize(y, window_sum)
    /\ pc' = "istft_done"
    /\ UNCHANGED <<srvVars, x, n_fft, d, fftVars, hop_length, window, stft_matrix, err,
                   window_sum, frame_idx, parVars, melVars>>

NextSTFT ==
    \/ StftCall
    \/ IstftAlloc
    \/ IstftFrame
    \/ IstftNormalize

SpecSTFT == InitSTFT /\ [][NextSTFT]_vars

(***************************************************************************)
(* CustomSpectrogram.mel_filterbank                                        *)
(***************************************************************************)
\* most mel bands drawn
MaxMels == 2

\* twice fmax, or twice its default sample_rate / 2 (lines 341-342)
TwiceFmax(sr, fm) == IF fm = None THEN sr ELSE 2 * fm

\* floor((n_fft + 1) * hz / sample_rate) for hz = hz2 / 2 >= 0
BinOf(nf, sr, hz2) == ((nf + 1) * hz2) \div (2 * sr)

\* The arrays lines 352-358 can produce for bin_points.  hz_to_mel and
\* mel_to_hz are increasing and inverse to each other, so the n_mels + 2
\* points run from the bin of fmin to the bin of fmax without changing
\* direction; the bins between are not computed here (log10 and powers),
\* every sequence of that shape is allowed for.
BinPointChoices(nf, nm, sr, fmn, fm) ==
    LET lo == BinOf(nf, sr, 2 * fmn)
        hi == BinOf(nf, sr, TwiceFmax(sr, fm))
        num == nm + 2
    IN IF num <= 0 THEN {<<>>}
       ELSE IF num = 1 THEN {<<lo>>}
       ELSE {bp \in [1..num -> Min(lo, hi)..Max(lo, hi)] :
                /\ bp[1] = lo
                /\ bp[num] = hi
                /\ \A i \in 1..(num - 1) :
                      IF lo <= hi THEN bp[i] <= bp[i + 1] ELSE bp[i] >= bp[i + 1]}

\* mutant of FilterWeight: the rising ramp is measured from bin 0
FilterWeightFromZero(bp, m, k) ==
    LET f_left == bp[m]
        f_center == bp[m + 1]
        f_right == bp[m + 2]
    IN IF f_left <= k /\ k < f_center
       THEN CRat(k, f_center - f_left)
       ELSE IF f_center <= k /\ k < f_right
       THEN CRat(f_right - k, f_right - f_center)
       ELSE CZero

\* lines 364-373: the weight filter m leaves at bin k (0-based)
FilterWeight(bp, m, k) ==
    LET f_left == bp[m]
        f_center == bp[m + 1]
        f_right == bp[m + 2]
    IN IF f_left <= k /\ k < f_center
       THEN CRat(k - f_left, f_center - f_left)
       ELSE IF f_center <= k /\ k < f_right
       THEN CRat(f_right - k, f_right - f_center)
       ELSE CZero

\* the bins filter m writes (0-based)
BinsWritten(bp, m) == (bp[m]..(bp[m + 1] - 1)) \cup (bp[m + 1]..(bp[m + 2] - 1))

\* mel_filterbank for fmin >= 0, given the bin_points computed: the matrix
\* as its rows, or the exception raised
MelFilterbank(nf, nm, bp) ==
    LET n_freq_bins == nf \div 2 + 1
    IN IF nm < 0 THEN [err |-> "ValueError", val |-> <<>>]
       ELSE IF \E m \in 1..nm : \E k \in BinsWritten(bp, m) : k >= n_freq_bins
       THEN [err |-> "IndexError", val |-> <<>>]
       ELSE [err |-> "none",
             val |-> Arr([m \in 1..nm |->
                        Arr([k \in 1..n_freq_bins |-> FilterWeight(bp, m, k - 1)])])]

\* arguments drawn: n_fft = 8 has filters several bins wide, and fmax = 6
\* lies beyond sample_rate / 2
MelFrameSizes == {2, 3, 4, 8}
SampleRates == {8}
Frequencies == 0..6

InitMel ==
    /\ pc = "mel"
    /\ n_fft \in MelFrameSizes
    /\ n_mels \in (-3)..MaxMels
    /\ sample_rate \in SampleRates
    /\ fmin \in Frequencies
    /\ fmax \in {None} \cup Frequencies
    /\ bin_points = <<>> /\ filterbank = <<>>
    /\ scale = "magnitude" /\ spectrogram = <<>>
    /\ x = <<>> /\ d = 1 /\ buf = <<>> /\ s = 0 /\ out = <<>> /\ freqs = <<>>
    /\ dtype = "float64" /\ buf_mem = NoMem /\ out_mem = NoMem
    /\ hop_length = None /\ window = "none"
    /\ stft_matrix = [rows |-> 0, cols |-> <<>>]
    /\ err = "none"
    /\ y = <<>> /\ window_sum = <<>> /\ frame_idx = 0
    /\ atomic = TRUE /\ tasks = <<>>
    /\ ServerIdle

MelFilterbankCall ==
    /\ pc = "mel"
    /\ \E bp \in BinPointChoices(n_fft, n_mels, sample_rate, fmin, fmax) :
          LET r == MelFilterbank(n_fft, n_mels, bp)
          IN /\ bin_points' = bp
             /\ filterbank' = r.val
             /\ err' = r.err
             /\ pc' = IF r.err = "none" THEN "mel_done" ELSE "mel_error"
    /\ UNCHANGED <<srvVars, x, n_fft, d, fftVars, stftVars, n_mels, sample_rate, fmin, fmax,
                   scale, spectrogram>>

NextMel == MelFilterbankCall

SpecMel == InitMel /\ [][NextMel]_vars

(***************************************************************************)
(* CustomSpectrogram.compute_spectrogram                                   *)
(*                                                                         *)
(* A magnitude |z| is kept by its square, which is rational for the frame  *)
(* sizes drawn; a decibel value 20*log10(num / den) is kept by the two     *)
(* magnitudes it is taken of: it is 0 exactly when num = den > 0 and at    *)
(* most 0 exactly when num <= den, den > 0.                                *)
(***************************************************************************)
\* |z|^2 for line 306's np.abs
Mag2(z) == CMul(z, CConj(z))

\* a <= b for rationals
RatLeq(a, b) ==
    LET l == LCM(a.d, b.d)
    IN a.c[1] * (l \div a.d) <= b.c[1] * (l \div b.d)

\* |z| <= 1e-10, that is |z|^2 <= 1e-20, for the rational m2 = |z|^2
AtOrBelowFloor(m2) ==
    /\ m2 # NotFinite
    /\ \/ m2.c[1] <= 0
       \/ ((((m2.d \div m2.c[1]) \div 100000) \div 100000) \div 100000)
              \div 100000 >= 1

\* a magnitude as np.abs gives it
Magnitude(m2) == [floor |-> FALSE, sq |-> m2]

\* line 313: np.maximum(magnitude, 1e-10) of one entry (nan stays nan)
FlooredMagnitude(m2) ==
    IF AtOrBelowFloor(m2) THEN [floor |-> TRUE, sq |-> CZero] ELSE Magnitude(m2)

\* a <= b for magnitudes; the floored one stands for 1e-10, and nan
\* compares false with everything
MagLeq(a, b) ==
    IF a.sq = NotFinite \/ b.sq = NotFinite THEN FALSE
    ELSE IF a.floor THEN b.floor \/ ~AtOrBelowFloor(b.sq)
    ELSE IF b.floor THEN AtOrBelowFloor(a.sq)
    ELSE RatLeq(a.sq, b.sq)

\* line 314: np.max over the entries i.. of the flattened matrix; a nan
\* entry makes the maximum nan
RECURSIVE MaxFrom(_, _, _)
MaxFrom(flat, i, best) ==
    IF i > Len(flat) THEN best
    ELSE MaxFrom(flat, i + 1,
                 IF best.sq = NotFinite \/ MagLeq(flat[i], best) THEN best
                 ELSE flat[i])

RECURSIVE Flatten(_)
Flatten(cols) == IF cols = <<>> THEN <<>> ELSE Head(cols) \o Flatten(Tail(cols))

\* line 306: np.abs of every entry
Mag2Matrix(cols) ==
    Arr([j \in 1..Len(cols) |-> Arr([k \in 1..Len(cols[j]) |-> Mag2(cols[j][k])])])

\* line 317: spectrogram = magnitude
MagnitudeMatrix(m2) ==
    Arr([j \in 1..Len(m2) |-> Arr([k \in 1..Len(m2[j]) |-> Magnitude(m2[j][k])])])

\* line 313: np.maximum(magnitude, 1e-10)
FlooredMatrix(m2) ==
    Arr([j \in 1..Len(m2) |->
        Arr([k \in 1..Len(m2[j]) |-> FlooredMagnitude(m2[j][k])])])

\* line 315: 20 * np.log10(magnitude / max_val)
DbMatrix(mag, max_val) ==
    Arr([j \in 1..Len(mag) |->
        Arr([k \in 1..Len(mag[j]) |-> [num |-> mag[j][k], den |-> max_val]])])

Scales == {"magnitude", "power", "db"}

\* what compute_spectrogram leaves when it raises e after stft returned r
SpectrogramFailed(r, e) ==
    [err |-> e, stft |-> [rows |-> r.rows, cols |-> r.cols],
     S |-> <<>>, frequencies |-> <<>>, times |-> <<>>]

\* lines 312-315, on the floored magnitudes
DbScale(floored, flat) == DbMatrix(floored, MaxFrom(flat, 2, flat[1]))

\* lines 309-317, on the squared magnitudes m2
Scaled(m2, floored, sc) ==
    IF sc = "power" THEN m2
    ELSE IF sc = "db" THEN DbScale(floored, Flatten(floored))
    ELSE MagnitudeMatrix(m2)

\* lines 306-324, on the matrix r that stft returned
SpectrogramOf(r, m2, nf, hop, sr, sc) ==
    IF r.err # "none" THEN SpectrogramFailed(r, r.err)
    ELSE IF sc = "db" /\ r.cols = <<>> THEN SpectrogramFailed(r, "ValueError")
    ELSE IF nf = 0 \/ sr = 0 THEN SpectrogramFailed(r, "ZeroDivisionError")
    ELSE [err |-> "none", stft |-> [rows |-> r.rows, cols |-> r.cols],
          S |-> Scaled(m2, FlooredMatrix(m2), sc),
          frequencies |-> Arr([k \in 1..(nf \div 2 + 1) |-> CRat((k - 1) * sr, nf)]),
          times |-> Arr([k \in 1..Len(r.cols) |-> CRat((k - 1) * hop, sr)])]

\* line 303 on
SpectrogramOfStft(r, nf, hop, sr, sc) ==
    SpectrogramOf(r, Mag2Matrix(r.cols), nf, hop, sr, sc)

\* lines 299-324
ComputeSpectrogram(sig, nf, hop, wname, sr, sc) ==
    SpectrogramOfStft(Stft(sig, nf, hop, wname), nf, hop, sr, sc)

(***************************************************************************)
(* The call of compute_spectrogram as a step.                              *)
(***************************************************************************)
\* the signals drawn include the all-zero ones
SpectrogramSigVals == {CZero, CInt(-2)}

InitSpectrogram ==
    /\ pc = "spectrogram"
    /\ x \in SeqsUpTo(SpectrogramSigVals, MaxSig - 1)
    /\ n_fft \in FrameSizes
    /\ hop_length \in HopLengths
    /\ window \in Windows
    /\ sample_rate \in SampleRates
    /\ scale \in Scales
    /\ spectrogram = <<>>
    /\ d = 1 /\ buf = <<>> /\ s = 0 /\ out = <<>> /\ freqs = <<>>
    /\ dtype = "float64" /\ buf_mem = NoMem /\ out_mem = NoMem
    /\ stft_matrix = [rows |-> 0, cols |-> <<>>]
    /\ err = "none"
    /\ y = <<>> /\ window_sum = <<>> /\ frame_idx = 0
    /\ atomic = TRUE /\ tasks = <<>>
    /\ ServerIdle
    /\ n_mels = 0 /\ fmin = 0 /\ fmax = 0
    /\ bin_points = <<>> /\ filterbank = <<>>

\* the state compute_spectrogram leaves with the result r
SpectrogramReturns(r) ==
    /\ err' = r.err
    /\ stft_matrix' = r.stft
    /\ spectrogram' = [S |-> r.S, frequencies |-> r.frequencies, times |-> r.times]
    /\ pc' = IF r.err = "none" THEN "spectrogram_done" ELSE "spectrogram_error"

ComputeSpectrogramCall ==
    /\ pc = "spectrogram"
    /\ SpectrogramReturns(ComputeSpectrogram(x, n_fft, HopOf(hop_length, n_fft),
                                             window, sample_rate, scale))
    /\ UNCHANGED <<srvVars, x, n_fft, d, fftVars, hop_length, window, y, window_sum,
                   frame_idx, parVars, n_mels, sample_rate, fmin, fmax,
                   bin_points, filterbank, scale>>

NextSpectrogram == ComputeSpectrogramCall

SpecSpectrogram == InitSpectrogram /\ [][NextSpectrogram]_vars

(***************************************************************************)
(* The frame loops of stft and istft with the frames run in parallel.  The *)
(* frames are taken in any order; the accumulations of lines 265-266       *)
(* interleave sample by sample, each of them one step (atomic) or a read   *)
(* and a later write.                                                      *)
(***************************************************************************)
\* lines 198-211: the column stft stores for frame fi
StftColumn(sig, nf, hop, win, fi) == Rfft(ArrayMul(Frame(sig, nf, hop, fi), win), nf)

\* lines 253-265: what istft adds to y for the frame with this column
IstftContribution(col, nf, win) == ArrayMul(IstftFrameSamples(col, nf), win)

\* mutant of TargetSample: every frame accumulates at the start of the buffer
TargetSampleWithoutOffset(fi, i, hop) == i

\* lines 253 and 265: the sample (0-based) that element i of frame fi is
\* added to
TargetSample(fi, i, hop) == fi * hop + i

\* most samples after the first frame
MaxTail == 2

ParFrameSizes == {2, 4}
\* hop 1 overlaps the frames; hop 2 overlaps those of four samples and
\* lays those of two end to end
ParHops == {1, 2}
\* the Hann window, but for two samples, where it is all zero
ParWindowOf(nf) == IF nf = 2 THEN "none" ELSE "hann"

InitParallel ==
    /\ pc = "par_stft"
    /\ n_fft \in ParFrameSizes
    /\ x \in SeqsUpTo(SigVals, MaxSig - 1)
    /\ Len(x) >= n_fft
    /\ Len(x) <= n_fft + MaxTail
    /\ hop_length \in ParHops
    /\ window = ParWindowOf(n_fft)
    /\ atomic \in BOOLEAN
    /\ tasks = <<>>
    /\ ServerIdle
    /\ stft_matrix = [rows |-> 0, cols |-> <<>>]
    /\ d = 1 /\ buf = <<>> /\ s = 0 /\ out = <<>> /\ freqs = <<>>
    /\ dtype = "float64" /\ buf_mem = NoMem /\ out_mem = NoMem
    /\ err = "none"
    /\ y = <<>> /\ window_sum = <<>> /\ frame_idx = 0
    /\ n_mels = 0 /\ sample_rate = 0 /\ fmin = 0 /\ fmax = 0
    /\ bin_points = <<>> /\ filterbank = <<>>
    /\ scale = "magnitude" /\ spectrogram = <<>>

\* stft lines 190-194: count the frames, allocate the matrix
ParStftAlloc ==
    /\ pc = "par_stft"
    /\ LET n_frames == 1 + (Len(x) - n_fft) \div hop_length
           rows == n_fft \div 2 + 1
       IN /\ stft_matrix' = [rows |-> rows,
                             cols |-> Arr([f \in 1..n_frames |-> Zeros(rows)])]
          /\ tasks' = Arr([f \in 1..n_frames |->
                          [stored |-> FALSE, i |-> 0, held |-> <<>>, add |-> <<>>]])
    /\ pc' = "par_stft_frames"
    /\ UNCHANGED <<srvVars, x, n_fft, d, fftVars, hop_length, window, err, y, window_sum,
                   frame_idx, atomic, melVars>>

\* stft lines 198-212 for one frame not yet stored, whichever
ParStftFrame ==
    /\ pc = "par_stft_frames"
    /\ \E f \in 1..Len(tasks) :
          /\ ~tasks[f].stored
          /\ stft_matrix' =
                [stft_matrix EXCEPT !.cols[f] =
                    StftColumn(x, n_fft, hop_length, Window(n_fft, window), f - 1)]
          /\ tasks' = [tasks EXCEPT ![f].stored = TRUE]
    /\ UNCHANGED <<srvVars, pc, x, n_fft, d, fftVars, hop_length, window, err, y, window_sum,
                   frame_idx, atomic, melVars>>

\* istft lines 229-262 once the matrix is complete: allocate the two
\* buffers, transform every column back
ParIstftAlloc ==
    /\ pc = "par_stft_frames"
    /\ \A f \in 1..Len(tasks) : tasks[f].stored
    /\ LET nf == IstftNFft(stft_matrix)
           n_samples == nf + (Len(stft_matrix.cols) - 1) * hop_length
       IN /\ y' = Zeros(n_samples)
          /\ window_sum' = Zeros(n_samples)
          /\ tasks' = Arr([f \in 1..Len(tasks) |->
                          [tasks[f] EXCEPT !.add =
                              IstftContribution(stft_matrix.cols[f], nf,
                                                Window(nf, window))]])
    /\ pc' = "par_istft"
    /\ UNCHANGED <<srvVars, x, n_fft, d, fftVars, hop_length, window, stft_matrix, err,
                   frame_idx, atomic, melVars>>

\* the buffers after element i of frame f is added to the values yv, wv
Accumulated(f, yv, wv) ==
    LET i == tasks[f].i
        k == TargetSample(f - 1, i, hop_length) + 1
        w == Window(IstftNFft(stft_matrix), window)[i + 1]
    IN /\ y' = [y EXCEPT ![k] = CAdd(yv, tasks[f].add[i + 1])]
       /\ window_sum' = [window_sum EXCEPT ![k] = CAdd(wv, CMul(w, w))]
       /\ tasks' = [tasks EXCEPT ![f].i = i + 1, ![f].held = <<>>]

\* lines 265-266 for one sample of one frame, as one step
ParAccumulate ==
    /\ pc = "par_istft"
    /\ atomic
    /\ \E f \in 1..Len(tasks) :
          /\ tasks[f].i < IstftNFft(stft_matrix)
          /\ LET k == TargetSample(f - 1, tasks[f].i, hop_length) + 1
             IN Accumulated(f, y[k], window_sum[k])
    /\ UNCHANGED <<srvVars, pc, x, n_fft, d, fftVars, hop_length, window, stft_matrix, err,
                   frame_idx, atomic, melVars>>

\* lines 265-266 for one sample of one frame, first half: read the sums
ParRead ==
    /\ pc = "par_istft"
    /\ ~atomic
    /\ \E f \in 1..Len(tasks) :
          /\ tasks[f].i < IstftNFft(stft_matrix)
          /\ tasks[f].held = <<>>
          /\ LET k == TargetSample(f - 1, tasks[f].i, hop_length) + 1
             IN tasks' = [tasks EXCEPT ![f].held = <<y[k], window_sum[k]>>]
    /\ UNCHANGED <<srvVars, pc, x, n_fft, d, fftVars, hop_length, window, stft_matrix, err,
                   y, window_sum, frame_idx, atomic, melVars>>

\* second half: write the sums read, plus this frame's element
ParWrite ==
    /\ pc = "par_istft"
    /\ ~atomic
    /\ \E f \in 1..Len(tasks) :
          /\ tasks[f].held # <<>>
          /\ Accumulated(f, tasks[f].held[1], tasks[f].held[2])
    /\ UNCHANGED <<srvVars, pc, x, n_fft, d, fftVars, hop_length, window, stft_matrix, err,
                   frame_idx, atomic, melVars>>

\* every frame has added all its elements
ParJoin ==
    /\ pc = "par_istft"
    /\ \A f \in 1..Len(tasks) : tasks[f].i >= IstftNFft(stft_matrix)
    /\ pc' = "par_done"
    /\ UNCHANGED <<srvVars, x, n_fft, d, fftVars, stftVars, err, melVars>>

NextParallel ==
    \/ ParStftAlloc
    \/ ParStftFrame
    \/ ParIstftAlloc
    \/ ParAccumulate
    \/ ParRead
    \/ ParWrite
    \/ ParJoin

SpecParallel == InitParallel /\ [][NextParallel]_vars

(***************************************************************************)
(* Reference definitions used by the properties.                           *)
(***************************************************************************)
IsPowerOfTwo(n) == \E e \in 0..16 : n = Pow2(e)

\* the smallest power of two that is >= n
LeastPow2AtLeast(n) ==
    CHOOSE p \in {Pow2(e) : e \in 0..16} :
        p >= n /\ \A q \in {Pow2(e) : e \in 0..16} : q >= n => p <= q

\* the length fft is to return for an input of length n
PaddedLength(n) == IF n <= 1 \/ IsPowerOfTwo(n) THEN n ELSE LeastPow2AtLeast(n)

RECURSIVE CSum(_, _, _)
CSum(f, lo, hi) == IF lo > hi THEN CZero ELSE CAdd(f[lo], CSum(f, lo + 1, hi))

\* a[n] of the zero-extended a (0-based n)
ZeroExt(a, n) == IF n < Len(a) THEN a[n + 1] ELSE CZero

\* bin k of the direct DFT of a zero-padded to np points:
\* sum over n of a[n] * exp(-2*pi*i*k*n/np)
DftBin(a, np, k) ==
    CSum([n \in 0..(np - 1) |->
            CMul(ZeroExt(a, n), ZetaPow(-(k * n * ((2 * H) \div np))))],
         0, np - 1)

(***************************************************************************)
(* Properties of CustomFFT.                                                *)
(***************************************************************************)
\* C1: for every input of length N >= 2, fft(x) equals the direct DFT of x
\* zero-padded to the next power of two, bin by bin.
FftEqualsDirectDft ==
    (pc = "fft_done" /\ Len(x) >= 2) =>
        LET np == LeastPow2AtLeast(Len(x))
        IN /\ Len(out) = np
           /\ \A k \in 0..(np - 1) : out[k + 1] = DftBin(x, np, k)

\* C1 witness: a padded complex input has been transformed to a spectrum
\* with a non-real bin
FftEqualsDirectDftWitness ==
    /\ pc = "fft_done"
    /\ Len(x) = 3
    /\ x[2] = CI
    /\ \E k \in 1..Len(out) : ~IsRational(out[k])

\* C2: ifft(fft(x)) has the padded length, equals x on [0, N) and is zero
\* on [N, N').
IfftFftRoundTrip ==
    pc = "ifft_done" =>
        /\ Len(out) = PaddedLength(Len(x))
        /\ \A k \in 1..Len(out) :
              out[k] = IF k <= Len(x) THEN x[k] ELSE CZero

\* C2 witness: the round trip of a non-power-of-two, non-zero input
IfftFftRoundTripWitness ==
    /\ pc = "ifft_done"
    /\ Len(x) = 3
    /\ x[3] # CZero
    /\ Len(out) = 4

\* C3: fft returns length N when N <= 1 or N is a power of two, otherwise
\* the smallest power of two above N; the added positions hold zeros before
\* the transform; for N <= 1 the input is returned unchanged.
FftLengthAndPadding ==
    /\ pc = "fft_padded" =>
          /\ Len(buf) = PaddedLength(Len(x))
          /\ \A k \in 1..Len(buf) :
                buf[k] = IF k <= Len(x) THEN x[k] ELSE CZero
    /\ pc = "fft_done" =>
          /\ Len(out) = PaddedLength(Len(x))
          /\ Len(x) <= 1 => out = x

\* C3 witness: an input of non-power-of-two length has been padded
FftLengthAndPaddingWitness ==
    /\ pc = "fft_padded"
    /\ Len(x) = 3
    /\ Len(buf) = 4
    /\ x[3] # CZero

\* rfft's n: the argument, or len(x) when it is omitted
RfftN == IF n_fft = None THEN Len(x) ELSE n_fft

\* C4: for n_fft >= 1 and any input length, rfft returns floor(n_fft/2)+1
\* coefficients, the bins of x padded or truncated to n_fft samples, and
\* rfftfreq returns as many values.
RfftLength ==
    (pc \in {"rfft_done", "rfftfreq_done"} /\ RfftN >= 1) =>
        /\ Len(out) = RfftN \div 2 + 1
        /\ \A k \in 1..Len(out) :
              out[k] = DftBin(Take(x, RfftN), LeastPow2AtLeast(RfftN), k - 1)
        /\ pc = "rfftfreq_done" => (err = "none" /\ Len(freqs) = Len(out))

\* C4 witness: rfft has truncated a longer input, and rfftfreq has run
RfftLengthWitness ==
    /\ pc = "rfftfreq_done"
    /\ n_fft = 3
    /\ Len(x) = 4
    /\ x[4] # CZero
    /\ Len(freqs) = 2

(***************************************************************************)
(* Properties of CustomSTFT.                                               *)
(***************************************************************************)
\* the hop stft and istft work with
Hop == HopOf(hop_length, n_fft)

StftReturned == pc \in {"stft_done", "stft_error"}

\* C5: when the frame count is zero or negative (a non-empty signal with
\* N < n_fft), stft still returns a matrix with at least one column, the
\* transform of the signal zero-padded to n_fft samples.
ShortSignalStillHasOneFrame ==
    (StftReturned /\ n_fft >= 1 /\ Hop >= 1 /\ 1 <= Len(x) /\ Len(x) < n_fft) =>
        /\ pc = "stft_done"
        /\ Len(stft_matrix.cols) >= 1
        /\ stft_matrix.cols[1] =
              Rfft(ArrayMul(PadRight(x, n_fft - Len(x)), Window(n_fft, window)), n_fft)

\* the windowed samples [k*hop, k*hop + n_fft) of the signal (k 0-based)
WindowedSamples(k) ==
    Arr([j \in 1..n_fft |-> CMul(x[k * Hop + j], Window(n_fft, window)[j])])

\* C6: for N >= n_fft >= 1 and hop >= 1 stft returns floor(n_fft/2)+1 rows
\* and 1 + floor((N - n_fft)/hop) columns, and column k is the real
\* transform of the windowed samples [k*hop, k*hop + n_fft).
StftShapeAndFrames ==
    (StftReturned /\ n_fft >= 1 /\ Hop >= 1 /\ Len(x) >= n_fft) =>
        /\ pc = "stft_done"
        /\ stft_matrix.rows = n_fft \div 2 + 1
        /\ Len(stft_matrix.cols) = 1 + (Len(x) - n_fft) \div Hop
        /\ \A k \in 1..Len(stft_matrix.cols) :
              /\ Len(stft_matrix.cols[k]) = stft_matrix.rows
              /\ \A b \in 1..stft_matrix.rows :
                    stft_matrix.cols[k][b] =
                        DftBin(WindowedSamples(k - 1), LeastPow2AtLeast(n_fft), b - 1)

\* C6 witness: overlapping frames of a windowed signal, the last samples of
\* which are in no frame
StftShapeAndFramesWitness ==
    /\ pc = "stft_done"
    /\ n_fft = 4 /\ hop_length = 2 /\ window = "hamming"
    /\ Len(x) = 5
    /\ Len(stft_matrix.cols) = 1
    /\ stft_matrix.cols[1][2] # CZero

\* r > 1e-10 for a rational r = c/d, d > 0: c * 10^5 > d / 10^5
ExceedsThreshold(r) == r.c[1] * 100000 > r.d \div 100000

\* C7: with a Hann window, n_fft a power of two and hop = n_fft/4,
\* istft(stft(x)) equals x at every index whose accumulated window energy
\* exceeds the threshold.
IstftReconstructs ==
    (/\ pc = "istft_done"
     /\ window = "hann"
     /\ IsPowerOfTwo(n_fft)
     /\ 4 * Hop = n_fft
     /\ Len(x) >= n_fft) =>
        \A i \in 1..Len(y) :
            ExceedsThreshold(window_sum[i]) => (i <= Len(x) /\ y[i] = x[i])

\* C7 witness: a signal of several frames has been reconstructed away from
\* its edges
IstftReconstructsWitness ==
    /\ pc = "istft_done"
    /\ window = "hann" /\ n_fft = 4 /\ hop_length = None
    /\ Len(stft_matrix.cols) >= 3
    /\ \E i \in 1..Len(y) : ExceedsThreshold(window_sum[i]) /\ y[i] = CInt(-2)
    /\ \E i \in 1..Len(y) : ~ExceedsThreshold(window_sum[i])

\* the step of istft that normalizes
NormalizeStep == pc = "istft_loop" /\ pc' = "istft_done"

\* C8: a sample is divided by its window energy if and only if the energy
\* is above 1e-10; every other sample keeps its overlap-add sum, and no
\* division by zero occurs.
IstftDividesOnlyAboveThreshold ==
    [][NormalizeStep =>
         /\ Len(y') = Len(y)
         /\ \A i \in 1..Len(y) :
               /\ ExceedsThreshold(window_sum[i]) => y'[i] = CDivRat(y[i], window_sum[i])
               /\ ~ExceedsThreshold(window_sum[i]) => y'[i] = y[i]
               /\ y'[i] # NotFinite]_vars

\* C8 witness: istft has normalized a buffer with samples above and samples
\* at or below the threshold
IstftDividesOnlyAboveThresholdWitness ==
    /\ pc = "istft_done"
    /\ \E i \in 1..Len(y) : window_sum[i] = CZero
    /\ \E i \in 1..Len(y) :
          /\ ExceedsThreshold(window_sum[i])
          /\ window_sum[i] # COne
          /\ y[i] # CZero

\* C9: stft rejects non-positive n_fft and hop_length >= n_fft; no such call
\* returns a matrix (stated for the signals that hold at least one frame).
StftRejectsBadParameters ==
    (/\ StftReturned
     /\ Len(x) >= Max(n_fft, 1)
     /\ (n_fft <= 0 \/ (hop_length # None /\ hop_length >= n_fft))) =>
        pc = "stft_error"

(***************************************************************************)
(* Properties of CustomSpectrogram.mel_filterbank.                         *)
(***************************************************************************)
MelReturned == pc \in {"mel_done", "mel_error"}

\* C10: mel_filterbank rejects n_mels <= 0 and fmin >= fmax; no such call
\* returns a filterbank matrix.
MelFilterbankRejectsBadParameters ==
    (MelReturned /\ (n_mels <= 0 \/ 2 * fmin >= TwiceFmax(sample_rate, fmax))) =>
        pc = "mel_error"

(***************************************************************************)
(* Properties of CustomSpectrogram.compute_spectrogram.                    *)
(***************************************************************************)
SpectrogramReturned == pc \in {"spectrogram_done", "spectrogram_error"}

\* a magnitude above zero
MagPositive(m) == m.floor \/ (m.sq # NotFinite /\ m.sq.c[1] > 0)

\* the decibel value 20*log10(num / den) is 0
DbIsZero(e) == MagPositive(e.den) /\ e.num = e.den

\* the decibel value 20*log10(num / den) is at most 0
DbAtMostZero(e) == MagPositive(e.den) /\ MagLeq(e.num, e.den)

\* the (frame, bin) positions of the matrix stft returned
StftEntries ==
    {jk \in (1..Len(stft_matrix.cols)) \X (1..stft_matrix.rows) :
        jk[2] <= Len(stft_matrix.cols[jk[1]])}

\* |stft_matrix[k, j]| floored at 1e-10, from the matrix itself
FlooredAt(jk) ==
    LET m2 == Mag2(stft_matrix.cols[jk[1]][jk[2]])
    IN IF AtOrBelowFloor(m2) THEN [floor |-> TRUE, sq |-> CZero]
       ELSE [floor |-> FALSE, sq |-> m2]

DbAt(jk) == spectrogram.S[jk[1]][jk[2]]

\* the decibel matrix has the shape of the stft matrix, its values are at
\* most 0, and the value is 0 where the floored magnitude is largest
DbCeiling ==
    /\ pc = "spectrogram_done"
    /\ Len(spectrogram.S) = Len(stft_matrix.cols)
    /\ \A j \in 1..Len(spectrogram.S) : Len(spectrogram.S[j]) = stft_matrix.rows
    /\ \A jk \in StftEntries : DbAtMostZero(DbAt(jk))
    /\ \E jk \in StftEntries :
          /\ DbIsZero(DbAt(jk))
          /\ \A other \in StftEntries : MagLeq(FlooredAt(other), FlooredAt(jk))

\* C11: for every signal that yields at least one frame, the 'db'
\* spectrogram has maximum exactly 0, attained where the floored magnitude
\* is largest, and every other value at most 0, all-zero signals included.
DbMaximumIsZero ==
    (SpectrogramReturned /\ scale = "db" /\ Len(stft_matrix.cols) >= 1) => DbCeiling

\* the same where the window is defined: a cosine window of one sample is
\* nan (0 / 0)
DbMaximumIsZeroForFiniteWindows ==
    (/\ SpectrogramReturned /\ scale = "db" /\ Len(stft_matrix.cols) >= 1
     /\ (n_fft >= 2 \/ window = "none")) => DbCeiling

(***************************************************************************)
(* More properties of CustomSpectrogram.mel_filterbank.                    *)
(***************************************************************************)
\* a rational weight in [0, 1]
InUnitInterval(w) == IsRational(w) /\ w.d > 0 /\ 0 <= w.c[1] /\ w.c[1] <= w.d

\* arguments in the range C12 is about
MelArgumentsInRange ==
    /\ n_fft >= 2 /\ n_fft % 2 = 0
    /\ n_mels >= 1
    /\ 0 <= fmin
    /\ 2 * fmin < TwiceFmax(sample_rate, fmax)
    /\ TwiceFmax(sample_rate, fmax) <= sample_rate

\* C12: for even n_fft >= 2, n_mels >= 1 and 0 <= fmin < fmax <=
\* sample_rate / 2, mel_filterbank returns an n_mels by n_fft/2 + 1 matrix
\* with every entry in [0, 1], and every bin it writes is in [0, n_fft/2].
MelFilterbankShapeAndRange ==
    (MelReturned /\ MelArgumentsInRange) =>
        /\ pc = "mel_done"
        /\ Len(filterbank) = n_mels
        /\ \A m \in 1..n_mels :
              /\ Len(filterbank[m]) = n_fft \div 2 + 1
              /\ \A k \in 1..Len(filterbank[m]) : InUnitInterval(filterbank[m][k])
              /\ bin_points[m] <= bin_points[m + 1]
              /\ bin_points[m + 1] <= bin_points[m + 2]
              /\ \A k \in BinsWritten(bin_points, m) : 0 <= k /\ k <= n_fft \div 2

\* a filterbank in that range with a weight strictly between 0 and 1
MelFilterbankShapeAndRangeWitness ==
    /\ pc = "mel_done" /\ MelArgumentsInRange
    /\ \E m \in 1..n_mels : \E k \in 1..Len(filterbank[m]) :
          /\ 0 < filterbank[m][k].c[1]
          /\ filterbank[m][k].c[1] < filterbank[m][k].d
          /\ (k - 1) \in BinsWritten(bin_points, m)

(***************************************************************************)
(* Storage of the arrays CustomFFT returns.                                *)
(***************************************************************************)
FftFamilyReturned == pc \in {"fft_done", "rfft_done", "ifft_done"}

\* C13: an engine operation leaves its input unchanged and returns a
\* freshly allocated array that shares no storage with the input, also for
\* N = 0, N = 1 and input that is already complex.
ReturnsFreshStorage ==
    FftFamilyReturned => (out_mem # NoMem /\ out_mem # XMem)

\* the same for the calls that do allocate: every fft of two or more
\* samples or of real samples, every rfft, every ifft
ReturnsFreshStorageUnlessShortComplex ==
    (FftFamilyReturned /\ ~(pc = "fft_done" /\ dtype = "complex128" /\ Len(x) <= 1))
        => (out_mem # NoMem /\ out_mem # XMem)

\* no step writes into the argument x
InputUnchanged == [][x' = x]_vars

(***************************************************************************)
(* Properties of the frame loops run in parallel.                          *)
(***************************************************************************)
\* istft lines 252-266 as written: the frames in order from fi on, each
\* added whole
RECURSIVE OverlapAdd(_, _, _, _, _, _)
OverlapAdd(cols, nf, hop, win, fi, acc) ==
    IF fi >= Len(cols) THEN acc
    ELSE OverlapAdd(cols, nf, hop, win, fi + 1,
                    [y |-> AddAt(acc.y, fi * hop,
                                 ArrayMul(IstftFrameSamples(cols[fi + 1], nf), win)),
                     window_sum |-> AddAt(acc.window_sum, fi * hop,
                                          ArrayMul(win, win))])

\* the two buffers the sequential loop leaves for the matrix
SequentialBuffers ==
    OverlapAdd(stft_matrix.cols, IstftNFft(stft_matrix), hop_length,
               Window(IstftNFft(stft_matrix), window), 0,
               [y |-> Zeros(Len(y)), window_sum |-> Zeros(Len(y))])

BuffersAsSequential ==
    /\ y = SequentialBuffers.y
    /\ window_sum = SequentialBuffers.window_sum

\* the samples frame f (from 1) of istft writes
WriteRegion(f) == {(f - 1) * hop_length + i : i \in 0..(n_fft - 1)}

\* C14: the frames have no ordering dependency.  While stft's frames are
\* stored in any order, column k holds frame k's transform once stored and
\* is untouched before; with every accumulation atomic, or with the frames'
\* regions apart, istft's frames in any order and interleaving leave the
\* buffers of the sequential loop; and with hop < n_fft the regions of
\* adjacent frames intersect.
FramesHaveNoOrderingDependency ==
    /\ pc = "par_stft_frames" =>
          \A f \in 1..Len(tasks) :
              stft_matrix.cols[f] =
                  IF tasks[f].stored
                  THEN Stft(x, n_fft, hop_length, window).cols[f]
                  ELSE Zeros(stft_matrix.rows)
    /\ (pc = "par_done" /\ (atomic \/ hop_length >= n_fft)) => BuffersAsSequential
    /\ (pc = "par_done" /\ hop_length < n_fft) =>
          \A f \in 1..(Len(tasks) - 1) : WriteRegion(f) \cap WriteRegion(f + 1) # {}

\* without atomic accumulation an interleaving loses a contribution of one
\* of two overlapping frames: a window energy ends below the sequential one
FramesHaveNoOrderingDependencyWitness ==
    /\ pc = "par_done" /\ ~atomic /\ hop_length < n_fft /\ Len(tasks) >= 2
    /\ \E k \in 1..Len(window_sum) :
          /\ window_sum[k] # SequentialBuffers.window_sum[k]
          /\ RatLeq(window_sum[k], SequentialBuffers.window_sum[k])

\* with atomic accumulation overlapping frames were added in some order
AtomicOverlapReached ==
    /\ pc = "par_done" /\ atomic /\ hop_length < n_fft /\ Len(tasks) >= 2
    /\ n_fft = 4 /\ BuffersAsSequential

(***************************************************************************)
(* Real-spectrum symmetry.                                                 *)
(***************************************************************************)
\* the input rfft passes to fft: x padded with zeros, or cut, to n samples
RfftInput ==
    IF Len(x) < RfftN THEN PadRight(x, RfftN - Len(x)) ELSE Take(x, RfftN)

\* C15: for real x and every n_fft >= 2 the bins rfft(x, n_fft) returns,
\* followed by the conjugates of bins 1..rows-2 in reverse order, are the
\* full spectrum fft gives for the same zero-padded input: same length,
\* same values.
RfftMirroredIsFullSpectrum ==
    (pc = "rfft_done" /\ RfftN >= 2 /\ Len(x) >= RfftN) =>
        FullSpectrum(out) = Fft(RfftInput)

\* the same for the n_fft that are powers of two, and any input length
RfftMirroredIsFullSpectrumForPowersOfTwo ==
    (pc = "rfft_done" /\ RfftN >= 2 /\ IsPowerOfTwo(RfftN)) =>
        FullSpectrum(out) = Fft(RfftInput)

(***************************************************************************)
(* Bit reversal and the butterfly stages.                                  *)
(***************************************************************************)
\* binary digit j (from the least significant, 0) of i
Bit(i, j) == (i \div Pow2(j)) % 2

\* i with its b binary digits in reverse order
BitReversed(i, b) ==
    SumFn([j \in 0..(b - 1) |-> Bit(i, j) * Pow2(b - 1 - j)], 0, b - 1)

\* fft has just permuted its working array
BitReversalDone == pc = "fft_stage" /\ s = 1

\* C16: for a power of two n >= 2 and b = log2(n), _bit_reverse_copy puts
\* element i at index reverse_bits(i, b); that map is a bijection on
\* 0..n-1 and its own inverse, so the output is a permutation of the input:
\* nothing lost, nothing duplicated, no position left at its zero.
BitReversalIsPermutation ==
    BitReversalDone =>
        LET n == Len(buf)
            b == FloorLog2(n)
            src == PadPow2(x)
        IN /\ n >= 2 /\ n = Pow2(b) /\ Len(src) = n
           /\ \A i \in 0..(n - 1) :
                 /\ BitReversed(i, b) \in 0..(n - 1)
                 /\ BitReversed(BitReversed(i, b), b) = i
                 /\ buf[BitReversed(i, b) + 1] = src[i + 1]
           /\ \A i, j \in 0..(n - 1) :
                 BitReversed(i, b) = BitReversed(j, b) => i = j
           /\ \A k \in 0..(n - 1) : \E i \in 0..(n - 1) : BitReversed(i, b) = k

\* eight elements, some of them moved
BitReversalIsPermutationWitness ==
    BitReversalDone /\ Len(buf) = 8 /\ buf # PadPow2(x) /\ buf[5] = x[2]

\* C17: on N' = 2^p points the butterfly loop runs exactly p stages; in
\* stage s, with m = 2^s, the pairs (k + j, k + j + m/2) are pairwise
\* disjoint, lie in 0..N'-1 and cover every index exactly once; the loop
\* ends after stage p.  (The stage writes u + t and u - t to the two
\* indices of a pair, u the first one's value before: they sum to 2u.)
ButterflyStagesPartitionIndices ==
    /\ pc = "fft_stage" =>
          LET n == Len(buf)
              p == FloorLog2(n)
              pairs == StagePairs(n, Pow2(s))
              after == ButterflyStage(buf, s)
          IN /\ n = Pow2(p) /\ 1 <= s /\ s <= p
             /\ \A pr \in pairs :
                   /\ 0 <= pr[1] /\ pr[1] < pr[2] /\ pr[2] < n
                   /\ pr[2] - pr[1] = Pow2(s - 1)
             /\ \A pr, qr \in pairs :
                   pr # qr => {pr[1], pr[2]} \cap {qr[1], qr[2]} = {}
             /\ \A i \in 0..(n - 1) :
                   Cardinality({pr \in pairs : i \in {pr[1], pr[2]}}) = 1
             /\ \A pr \in pairs :
                   CAdd(after[pr[1] + 1], after[pr[2] + 1]) =
                       CAdd(buf[pr[1] + 1], buf[pr[1] + 1])
    /\ (pc \in {"fft_done", "ifft_done"} /\ Len(buf) >= 2) =>
          s = FloorLog2(Len(buf)) + 1

\* the third and last stage of an eight-point transform
ButterflyStagesPartitionIndicesWitness ==
    pc = "fft_stage" /\ Len(buf) = 8 /\ s = 3 /\ Len(x) = 5


(***************************************************************************)
(* Degenerate filters of CustomSpectrogram.mel_filterbank.                 *)
(***************************************************************************)
\* filter m has center = left or right = center
DegenerateTriple(bp, m) == bp[m + 1] = bp[m] \/ bp[m + 2] = bp[m + 1]

\* row m of the filterbank is all zeros
RowIsZero(m) == \A k \in 1..Len(filterbank[m]) : filterbank[m][k] = CZero

\* C18: every filter whose bin triple (left, center, right) is degenerate,
\* center = left or right = center, has an all-zero row.
DegenerateFiltersAreZero ==
    pc = "mel_done" =>
        \A m \in 1..n_mels : DegenerateTriple(bin_points, m) => RowIsZero(m)

\* what the loops of lines 369-372 give instead: the row is zero when all
\* three bins coincide, and a filter with center = left < right has weight
\* 1 at its center bin
CollapsedFiltersAreZero ==
    pc = "mel_done" =>
        \A m \in 1..n_mels :
            /\ (bin_points[m] = bin_points[m + 1]
                    /\ bin_points[m + 1] = bin_points[m + 2]) => RowIsZero(m)
            /\ (bin_points[m] = bin_points[m + 1]
                    /\ bin_points[m + 1] < bin_points[m + 2]) =>
                  filterbank[m][bin_points[m + 1] + 1] = COne

(***************************************************************************)
(* The frame length istft recovers, and the length of istft(stft(x)).      *)
(***************************************************************************)
\* istft has allocated its output for the matrix stft returned
IstftAllocated == pc \in {"istft_loop", "istft_done"}

\* C19: for every n_fft >= 2 used by stft, the n_fft istft recovers from the
\* row count, 2*(rows-1), equals the n_fft stft used, the mirrored full
\* spectrum of each column has exactly that length, and the output signal
\* has length n_fft + (columns-1)*hop (stated for the matrices with at
\* least one column).
IstftRecoversFrameLength ==
    (IstftAllocated /\ n_fft >= 2 /\ Len(stft_matrix.cols) >= 1) =>
        /\ IstftNFft(stft_matrix) = n_fft
        /\ \A k \in 1..Len(stft_matrix.cols) :
              Len(FullSpectrum(stft_matrix.cols[k])) = n_fft
        /\ Len(y) = n_fft + (Len(stft_matrix.cols) - 1) * Hop

\* what lines 229-247 give instead: the recovered frame length is n_fft
\* for even n_fft and n_fft - 1 for odd n_fft, and the spectrum and the
\* output are sized from the recovered length
IstftRecoversEvenFrameLength ==
    (IstftAllocated /\ n_fft >= 2) =>
        LET nf == IstftNFft(stft_matrix)
        IN /\ nf = n_fft - (n_fft % 2)
           /\ \A k \in 1..Len(stft_matrix.cols) :
                 Len(FullSpectrum(stft_matrix.cols[k])) = nf
           /\ Len(y) = nf + (Len(stft_matrix.cols) - 1) * HopOf(hop_length, nf)

\* the samples of x past the last frame
TrailingSamples == Len(x) - ((Len(stft_matrix.cols) - 1) * Hop + n_fft)

\* C20: with N >= n_fft and hop >= 1 every frame of stft lies inside the
\* signal (k*hop + n_fft <= N), so no frame is zero-padded; fewer than hop
\* trailing samples are in no frame, and istft(stft(x)) has a length L with
\* N - hop < L <= N (stated for the calls with n_fft >= 2 and hop < n_fft).
FramesInsideSignalAndLength ==
    (pc \in {"stft_done", "istft_loop", "istft_done"}
        /\ Len(x) >= n_fft /\ Hop >= 1 /\ n_fft >= 2 /\ Hop < n_fft) =>
        /\ \A k \in 0..(Len(stft_matrix.cols) - 1) :
              /\ k * Hop + n_fft <= Len(x)
              /\ Frame(x, n_fft, Hop, k) = Slice(x, k * Hop, k * Hop + n_fft)
        /\ 0 <= TrailingSamples /\ TrailingSamples < Hop
        /\ IstftAllocated => (Len(x) - Hop < Len(y) /\ Len(y) <= Len(x))

\* the part of C20 about stft alone, and the length istft returns: the
\* covered samples for even n_fft, one fewer for odd n_fft
FramesInsideSignal ==
    (pc \in {"stft_done", "istft_loop", "istft_done"}
        /\ Len(x) >= n_fft /\ Hop >= 1) =>
        /\ \A k \in 0..(Len(stft_matrix.cols) - 1) :
              /\ k * Hop + n_fft <= Len(x)
              /\ Frame(x, n_fft, Hop, k) = Slice(x, k * Hop, k * Hop + n_fft)
        /\ 0 <= TrailingSamples /\ TrailingSamples < Hop
        /\ IstftAllocated =>
              Len(y) = Len(x) - TrailingSamples - (n_fft % 2)

(***************************************************************************)
(* task3_backend_server: the handlers of POST /api/separate and            *)
(* POST /api/separate-voices, and GET /status/<session_id>.                *)
(*                                                                         *)
(* Flask serves requests on concurrent threads; a step of a handler is     *)
(* the code up to the end of its next `with processing_lock` block, or up  *)
(* to its return.  A status entry is kept by its 'stage' and 'type'; its   *)
(* 'progress' and 'message' are left out.  A session id that is no key of  *)
(* processing_status has the entry NoEntry.                                *)
(***************************************************************************)
\* most requests in flight
MaxRequests == 2

Sessions == {"a", "b"}
Endpoints == {"/api/separate", "/api/separate-voices"}

\* line 34
ALLOWED_EXTENSIONS == {"mp3", "wav", "flac", "ogg", "aac", "m4a", "wma"}

\* str.lower() on the extensions drawn
Lower(e) == IF e = "MP3" THEN "mp3" ELSE e

\* file names as their parts between dots: <<>> is '', <<"song", "txt">>
\* is 'song.txt'
Filenames == {<<>>, <<"song">>, <<"song", "txt">>, <<"song", "MP3">>}

\* request.files: no 'audio' key, or the file under it
Uploads == {<<>>} \cup {<<f>> : f \in Filenames}

\* lines 48-50: '.' in filename and filename.rsplit('.', 1)[1].lower() in
\* ALLOWED_EXTENSIONS
allowed_file(filename) ==
    Len(filename) >= 2 /\ Lower(filename[Len(filename)]) \in ALLOWED_EXTENSIONS

NoEntry == [stage |-> "absent", type |-> "none"]
NoResponse == [code |-> 0, success |-> FALSE, error |-> ""]

\* the 'type' a handler writes into its status entries
StatusType(endpoint) ==
    IF endpoint = "/api/separate" THEN "instrument_separation" ELSE "voice_separation"

\* processing_status[session_id] = {'stage': stage, ..., 'type': ...}
Recorded(req, stage) ==
    [processing_status EXCEPT
        ![req.session_id] = [stage |-> stage, type |-> StatusType(req.endpoint)]]

\* the stages VoiceSeparator.process may hand to its progress callback
ProgressStages == {"loading", "separating", "saving"}

InitServer ==
    /\ processing_status = [sid \in Sessions |-> NoEntry]
    /\ requests \in [1..MaxRequests ->
                        [endpoint : Endpoints, session_id : Sessions,
                         files : Uploads, pc : {"received"},
                         response : {NoResponse}]]
    /\ polled = [code |-> 0, stage |-> ""]
    /\ pc = "server"
    /\ x = <<>> /\ n_fft = 0 /\ d = 1
    /\ buf = <<>> /\ s = 0 /\ out = <<>> /\ freqs = <<>>
    /\ dtype = "float64" /\ buf_mem = NoMem /\ out_mem = NoMem
    /\ hop_length = None /\ window = "none"
    /\ stft_matrix = [rows |-> 0, cols |-> <<>>]
    /\ err = "none"
    /\ y = <<>> /\ window_sum = <<>> /\ frame_idx = 0
    /\ atomic = TRUE /\ tasks = <<>>
    /\ n_mels = 0 /\ sample_rate = 0 /\ fmin = 0 /\ fmax = 0
    /\ bin_points = <<>> /\ filterbank = <<>>
    /\ scale = "magnitude" /\ spectrogram = <<>>

dspVars == <<pc, x, n_fft, d, err, fftVars, stftVars, melVars>>

\* request r moves to position p
Moved(r, p) == [requests EXCEPT ![r].pc = p]

\* request r returns the response
Returned(r, code, success, error) ==
    [requests EXCEPT ![r].pc = "returned",
                     ![r].response = [code |-> code, success |-> success,
                                      error |-> error]]

\* lines 134-144 and 264-274: the handler records 'uploading'
SeparateStart(r) ==
    /\ requests[r].pc = "received"
    /\ processing_status' = Recorded(requests[r], "uploading")
    /\ requests' = Moved(r, "validate")
    /\ UNCHANGED <<polled, dspVars>>

\* lines 147-156 and 277-286: the three 400 rejections
SeparateValidate(r) ==
    /\ requests[r].pc = "validate"
    /\ LET files == requests[r].files
       IN requests' =
             IF files = <<>>
             THEN Returned(r, 400, FALSE, "No audio file provided")
             ELSE IF files[1] = <<>>
             THEN Returned(r, 400, FALSE, "No file selected")
             ELSE IF ~allowed_file(files[1])
             THEN Returned(r, 400, FALSE, "Invalid file type")
             ELSE Moved(r, "save")
    /\ UNCHANGED <<processing_status, polled, dspVars>>

\* lines 159-172 and 289-302: the upload is saved, which may raise, and
\* 'uploaded' is recorded
SeparateSave(r) ==
    /\ requests[r].pc = "save"
    /\ \E raised \in BOOLEAN :
          IF raised
          THEN /\ requests' = Moved(r, "except")
               /\ UNCHANGED processing_status
          ELSE /\ requests' = Moved(r, "prepare")
               /\ processing_status' = Recorded(requests[r], "uploaded")
    /\ UNCHANGED <<polled, dspVars>>

\* lines 175-206 and 305-337: the gains are parsed and the separator is
\* created, which may raise, and 'separating' is recorded
SeparatePrepare(r) ==
    /\ requests[r].pc = "prepare"
    /\ \E raised \in BOOLEAN :
          IF raised
          THEN /\ requests' = Moved(r, "except")
               /\ UNCHANGED processing_status
          ELSE /\ requests' = Moved(r, "process")
               /\ processing_status' = Recorded(requests[r], "separating")
    /\ UNCHANGED <<polled, dspVars>>

\* lines 321-328 and 341: separate_voices hands update_progress to
\* separator.process, which may call it; separate_instruments defines the
\* callback (lines 190-197) but does not pass it
ProgressCallback(r) ==
    /\ requests[r].pc = "process"
    /\ requests[r].endpoint = "/api/separate-voices"
    /\ \E stage \in ProgressStages :
          processing_status' = Recorded(requests[r], stage)
    /\ UNCHANGED <<requests, polled, dspVars>>

\* lines 208-215 and 339-345: separator.process and os.remove return or
\* raise
SeparateProcess(r) ==
    /\ requests[r].pc = "process"
    /\ \E raised \in BOOLEAN :
          requests' = Moved(r, IF raised THEN "except" ELSE "complete")
    /\ UNCHANGED <<processing_status, polled, dspVars>>

\* lines 217-223 and 347-353: 'complete' is recorded
SeparateComplete(r) ==
    /\ requests[r].pc = "complete"
    /\ processing_status' = Recorded(requests[r], "complete")
    /\ requests' = Moved(r, "respond")
    /\ UNCHANGED <<polled, dspVars>>

\* lines 227-228 and 357-358: the result is returned, unless storing the
\* session id in it or jsonify raises
SeparateRespond(r) ==
    /\ requests[r].pc = "respond"
    /\ \E raised \in BOOLEAN :
          requests' = IF raised THEN Moved(r, "except")
                      ELSE Returned(r, 200, TRUE, "")
    /\ UNCHANGED <<processing_status, polled, dspVars>>

\* lines 230-243 and 360-373: 'error' is recorded and the 500 response
\* returned
SeparateExcept(r) ==
    /\ requests[r].pc = "except"
    /\ processing_status' = Recorded(requests[r], "error")
    /\ requests' = Returned(r, 500, FALSE, "exception")
    /\ UNCHANGED <<polled, dspVars>>

\* lines 111-117: the entry of the session, or 404
GetStatus(sid) ==
    /\ polled' = IF processing_status[sid] # NoEntry
                 THEN [code |-> 200, stage |-> processing_status[sid].stage]
                 ELSE [code |-> 404, stage |-> ""]
    /\ UNCHANGED <<processing_status, requests, dspVars>>

NextServer ==
    \/ \E r \in 1..MaxRequests : SeparateStart(r)
    \/ \E r \in 1..MaxRequests : SeparateValidate(r)
    \/ \E r \in 1..MaxRequests : SeparateSave(r)
    \/ \E r \in 1..MaxRequests : SeparatePrepare(r)
    \/ \E r \in 1..MaxRequests : ProgressCallback(r)
    \/ \E r \in 1..MaxRequests : SeparateProcess(r)
    \/ \E r \in 1..MaxRequests : SeparateComplete(r)
    \/ \E r \in 1..MaxRequests : SeparateRespond(r)
    \/ \E r \in 1..MaxRequests : SeparateExcept(r)
    \/ \E sid \in Sessions : GetStatus(sid)

SpecServer == InitServer /\ [][NextServer]_vars

(***************************************************************************)
(* Properties of the separation handlers.                                  *)
(***************************************************************************)
\* the handler of request r has returned a response
Finished(r) == requests[r].pc = "returned"

\* no other request names the session of request r
OwnSession(r) ==
    \A q \in 1..MaxRequests : q # r => requests[q].session_id # requests[r].session_id

\* the stage recorded for the session of request r
StageOf(r) == processing_status[requests[r].session_id].stage

\* C21: once the handler of a request to /api/separate or
\* /api/separate-voices has returned a response, the stage recorded for the
\* request's session is 'complete' when the response is the success result
\* and 'error' for every failure response, the 400 rejections included
\* (stated for the requests that have their session to themselves).
FinishedRequestIsTerminal ==
    \A r \in 1..MaxRequests :
        (Finished(r) /\ OwnSession(r)) =>
            StageOf(r) = IF requests[r].response.success THEN "complete" ELSE "error"

\* what the handlers give instead: 'complete' with the success result,
\* 'error' with a 500 response, and 'uploading' left behind by each of the
\* three 400 rejections
RejectedRequestStaysUploading ==
    \A r \in 1..MaxRequests :
        (Finished(r) /\ OwnSession(r)) =>
            StageOf(r) = CASE requests[r].response.code = 200 -> "complete"
                           [] requests[r].response.code = 500 -> "error"
                           [] requests[r].response.code = 400 -> "uploading"

====
